---- MODULE Spec2Model ----
(***************************************************************************)
(* A model of pyevacalor: the session (login, token refresh, authenticated *)
(* web calls), the Device register map / raw value cache, the update()     *)
(* operation and the write operations with their job polling loops        *)
(* (Spec); the set-up of the Home Assistant integration, which constructs  *)
(* the client in the config flow and in async_setup_entry (SetupSpec); and *)
(* single calls of the translation functions and of do_refresh_token       *)
(* (CallSpec).                                                             *)
(*                                                                         *)
(* Numbers that Python holds as floats are held here as integers counting  *)
(* tenths (Scale), integers of the wire format are plain integers.         *)
(***************************************************************************)
EXTENDS Integers, Sequences, FiniteSets, TLC

VARIABLES
    pc,                  \* position of the calling thread
    in_ctor,             \* TRUE while evacalor.__init__ is still running
    session,             \* evacalor.token / token_expires / refresh_token
    hw,                  \* the handle_webcall invocation in progress
    register_map_dict,   \* Device.__register_map_dict
    information_dict,    \* Device.__information_dict
    retry_count,         \* the local retry_count of the polling loops
    op,                  \* the operation running (or last run) and its argument
    result,              \* how the last operation ended: what it raised, at
                         \* which call, and the last answer to that call
    pub,                 \* history: what the operation did to map / values
    cnt,                 \* history: requests, polls and sleeps of the operation
    obs,                 \* what the step just taken read, if it was a read
    host                 \* the integration: the configuration entry, the
                         \* identifier of the client, the entities added

vars == <<pc, in_ctor, session, hw, register_map_dict, information_dict,
          retry_count, op, result, pub, cnt, obs, host>>

----------------------------------------------------------------------------
(* Bounds of the model *)

MaxDepth == 2        \* 401 answers the server gives within one handle_webcall
MaxTTL == 0          \* longest token lifetime, in clock ticks
MaxUuid == 2         \* identifiers the config flow generates
NTok == 2            \* distinct token values the server cycles through

(* Program constants *)

RetryBound == 10     \* retry_count < 10
Scale == 10          \* tenths: the resolution kept of a Python float

----------------------------------------------------------------------------
(* Values exchanged with the server *)

NoException == "None"
NoToken == 0         \* self.token = None
False == [kind |-> "False"]
Json(body) == [kind |-> "json", body |-> body]
Raise(exc) == [kind |-> "raise", exc |-> exc]

MapId == 1           \* the device's id_registers_map
OtherId == 2

Register(key, offset, formula, inverse, lo, hi, enc) ==
    [reg_key |-> key, reg_type |-> 1, offset |-> offset, formula |-> formula,
     formula_inverse |-> inverse, format_string |-> "{0}",
     set_min |-> lo, set_max |-> hi, mask |-> 255] @@ enc

NoEnc == <<>>
EncVal(vs) == [enc_val |-> vs]
Enc(lang, description, value) ==
    [lang |-> lang, description |-> description, value |-> value]

OnOff == EncVal(<<Enc("ITA", "ON", 9), Enc("ENG", "ON", 1), Enc("ENG", "OFF", 0)>>)
NotEng == EncVal(<<Enc("ITA", "ON", 1), Enc("ITA", "OFF", 0)>>)

RegistersA ==
    << Register("temp_air_set", 0, "#/10", "#*10", 1, 2, NoEnc),
       Register("power_set", 1, "#", "#", 1, 2, NoEnc),
       Register("status_managed_get", 2, "#", "#", 0, 1, OnOff) >>

RegistersB ==
    << Register("temp_air_set", 3, "#", "#", 2, 3, NoEnc),
       Register("power_set", 1, "#", "#", 1, 3, NoEnc),
       Register("status_managed_get", 2, "#", "#", 0, 1, NotEng) >>

Group(id, registers) == [id |-> id, registers |-> registers]

\* the catalogs /deviceGetRegistersMap may answer with
Catalogs ==
    { << Group(MapId, RegistersA) >>,
      << Group(OtherId, RegistersA), Group(MapId, RegistersB) >>,
      << Group(OtherId, RegistersA) >> }

\* the jobAnswerData of a completed buffer reading
ReadingData ==
    { [Items |-> <<0, 1, 2>>, Values |-> <<10, 1, 0>>],
      [Items |-> <<1, 2, 3>>, Values |-> <<2, 1, 3>>],
      [Values |-> <<10, 1, 0>>] }

\* the jobAnswerData of a completed write job
WritingData == { [Cmd |-> 1], [NackErrCode |-> 1] }

JobAnswers(url) ==
    { [jobAnswerStatus |-> "pending", jobAnswerData |-> <<>>] } \cup
    { [jobAnswerStatus |-> "completed", jobAnswerData |-> d] :
        d \in IF url = "read_status" THEN ReadingData ELSE WritingData }

\* the bodies a 200 answer to a request of the given kind may carry
Bodies(url) ==
    CASE url = "registers_map" -> Catalogs
      [] url \in {"read_status", "write_status"} -> JobAnswers(url)
      [] url = "device_info" -> { [id_registers_map |-> MapId] }
      [] OTHER -> { [idRequest |-> 1] }

\* the values a caller passes to the setters, in tenths
UserValues == { 5, 15, 25, 40 }

----------------------------------------------------------------------------
(* Python dictionaries and numbers *)

Has(d, k) == k \in DOMAIN d
Put(d, k, v) == (k :> v) @@ d
Max(a, b) == IF a < b THEN b ELSE a

\* float(n) of an integer n, and int(x) of a float x (truncation towards 0)
ToFloat(n) == n * Scale
ToInt(x) == IF x >= 0 THEN x \div Scale ELSE -((-x) \div Scale)

\* an evaluation that leaves the number as it is
EvalIdentity(formula, x) == x

\* eval(formula.replace("#", str(x))): the value of the Python expression,
\* whatever the expression is; x and the result count tenths
Eval(formula, x) ==
    CASE formula = "#" -> x
      [] formula = "#/10" -> IF x >= 0 THEN x \div 10 ELSE -((-x) \div 10)
      [] formula = "#*10" -> x * 10
      [] formula = "abs(#)" -> IF x >= 0 THEN x ELSE -x

\* the type of the value: true division gives a float even of two
\* integers, the other expressions keep the type of the number put in
EvalIsFloat(formula, is_float) == is_float \/ formula = "#/10"

----------------------------------------------------------------------------
(* Device.__update_device_registers_mapping: the building of the map *)

RECURSIVE EncValLoop(_, _, _)
EncValLoop(enc_val, i, register_dict) ==
    IF i > Len(enc_val) THEN register_dict
    ELSE LET v == enc_val[i]
         IN  EncValLoop(enc_val, i + 1,
               IF v.lang = "ENG" /\ v.description = "ON"
                 THEN Put(register_dict, "value_on", v.value)
               ELSE IF v.lang = "ENG" /\ v.description = "OFF"
                 THEN Put(register_dict, "value_off", v.value)
               ELSE register_dict)

RegisterDict(register) ==
    LET register_dict ==
          [reg_type |-> register.reg_type, offset |-> register.offset,
           formula |-> register.formula,
           formula_inverse |-> register.formula_inverse,
           format_string |-> register.format_string,
           set_min |-> register.set_min, set_max |-> register.set_max,
           mask |-> register.mask]
    IN  IF Has(register, "enc_val")
          THEN EncValLoop(register.enc_val, 1, register_dict)
          ELSE register_dict

RECURSIVE RegistersLoop(_, _, _)
RegistersLoop(registers, i, register_map_dict_) ==
    IF i > Len(registers) THEN register_map_dict_
    ELSE RegistersLoop(registers, i + 1,
           Put(register_map_dict_, registers[i].reg_key,
               RegisterDict(registers[i])))

EmptyDict == [k \in {} |-> 0]

GroupMatches(registers_map, id_registers_map) ==
    registers_map.id = id_registers_map

\* the loop over the catalog: every matching group replaces the map, a
\* catalog without a matching group leaves it as it was
RECURSIVE RegistersMapLoop(_, _, _, _)
RegistersMapLoop(catalog, i, id_registers_map, current) ==
    IF i > Len(catalog) THEN current
    ELSE RegistersMapLoop(catalog, i + 1, id_registers_map,
           IF GroupMatches(catalog[i], id_registers_map)
             THEN RegistersLoop(catalog[i].registers, 1, EmptyDict)
             ELSE current)

HasMatch(catalog, id_registers_map) ==
    \E i \in 1..Len(catalog) : GroupMatches(catalog[i], id_registers_map)

----------------------------------------------------------------------------
(* Device.__update_device_information: the parsing of the job answer *)

RECURSIVE ItemsLoop(_, _, _, _)
ItemsLoop(items, values, current_i, information_dict_) ==
    IF current_i >= Len(items) THEN information_dict_
    ELSE ItemsLoop(items, values, current_i + 1,
           Put(information_dict_, items[current_i + 1], values[current_i + 1]))

\* [ok, dict]: ok is FALSE where the code catches KeyError
ParseJobAnswer(res) ==
    IF Has(res.jobAnswerData, "Items") /\ Has(res.jobAnswerData, "Values")
      THEN [ok |-> TRUE,
            dict |-> ItemsLoop(res.jobAnswerData.Items,
                               res.jobAnswerData.Values, 0, EmptyDict)]
      ELSE [ok |-> FALSE, dict |-> EmptyDict]

----------------------------------------------------------------------------
(* The polling loops *)

\* res is False or res['jobAnswerStatus'] != "completed"
NotCompleted(res) ==
    IF res.kind = "False" THEN TRUE
    ELSE res.body.jobAnswerStatus # "completed"

\* a loop that stops one retry late
WritePollAgainInclusive(res, retry_count_) ==
    NotCompleted(res) /\ retry_count_ <= RetryBound

\* a loop that goes on until the retries are used up
ReadPollAgainWhateverTheAnswer(res, retry_count_) ==
    retry_count_ < RetryBound

ReadPollAgain(res, retry_count_) ==
    NotCompleted(res) /\ retry_count_ < RetryBound

WritePollAgain(res, retry_count_) ==
    NotCompleted(res) /\ retry_count_ < RetryBound

\* a test that only looks for a failed call
ReadFailedOnlyFalse(res) == res.kind = "False"

\* a test that forgets the command acknowledgement
WriteFailedNoAckCheck(res) == NotCompleted(res)

\* the test after the loop of __update_device_information, and the
\* KeyError caught while the answer is parsed
ReadFailed(res) ==
    IF NotCompleted(res) THEN TRUE ELSE ~ ParseJobAnswer(res.body).ok

\* a test that lets every answer pass
WriteFailedNever(res) == FALSE

\* the test after the loop of __request_writing
WriteFailed(res) ==
    IF NotCompleted(res) THEN TRUE
    ELSE ~ Has(res.body.jobAnswerData, "Cmd")

----------------------------------------------------------------------------
(* Device.__prepare_value_for_writing and the values of turn_on / turn_off *)

\* a check of the lower bound only
OutOfRangeLowOnly(entry, value) == value < ToFloat(entry.set_min)

OutOfRange(entry, value) ==
    value < ToFloat(entry.set_min) \/ value > ToFloat(entry.set_max)

\* a conversion that keeps the value as given
EncodeWithoutInverse(entry, value) == << ToInt(value) >>

Encode(entry, value) ==
    << ToInt(Eval(entry.formula_inverse, value)) >>

Prepared(values) == [kind |-> "ok", values |-> values]
Thrown(exc) == [kind |-> exc, values |-> <<>>]

PrepareValueForWriting(map, item, value) ==
    IF ~ Has(map, item) THEN Thrown("KeyError")
    ELSE IF OutOfRange(map[item], value) THEN Thrown("ValueError")
    ELSE Prepared(Encode(map[item], value))

\* str.format(format_string, eval(formula)) of the raw value of a register:
\* the text of a number, kept as the number and its type
Decoded(tenths, is_float) ==
    [kind |-> "ok", tenths |-> tenths, is_float |-> is_float]

Translate(entry, raw) ==
    Decoded(Eval(entry.formula, ToFloat(raw)),
            EvalIsFloat(entry.formula, FALSE))

\* a lookup that falls back on 0 where the offset is missing
GetInformationItemOrDefault(map, info, item) ==
    IF ~ Has(map, item) THEN Thrown("KeyError")
    ELSE IF ~ Has(info, map[item].offset) THEN Translate(map[item], 0)
    ELSE Translate(map[item], info[map[item].offset])

\* Device.__get_information_item
GetInformationItem(map, info, item) ==
    IF ~ Has(map, item) THEN Thrown("KeyError")
    ELSE IF ~ Has(info, map[item].offset) THEN Thrown("KeyError")
    ELSE Translate(map[item], info[map[item].offset])

OnOffValues(map, item, field) ==
    IF ~ Has(map, item) \/ ~ Has(map[item], field) THEN Thrown("KeyError")
    ELSE Prepared(<< map[item][field] >>)

\* a request addressed to the power register whatever the item
WritePayloadOfPower(map, item, values) ==
    [Items |-> << map["power_set"].offset >>,
     Masks |-> << map["power_set"].mask >>, Values |-> values]

WritePayload(map, item, values) ==
    [Items |-> << map[item].offset >>, Masks |-> << map[item].mask >>,
     Values |-> values]

----------------------------------------------------------------------------
(* The exception classes *)

\* isinstance(e, Error)
IsError(exc) == exc \in {"Error", "UnauthorizedError", "ConnectionError"}

\* try: ... except Error: raise Error("Error while trying to " + what)
Reraise(exc, what) ==
    IF IsError(exc) THEN [kind |-> "Error", msg |-> what]
                    ELSE [kind |-> exc, msg |-> ""]

\* the except clauses of the integration around a call of the library:
\* set_temperature catches (ValueError, EvaCalorError), every other method
\* and the two set-ups catch EvaCalorError and its subclasses
Catches(name, exc) ==
    IF name = "set_air_temperature" THEN exc = "ValueError" \/ IsError(exc)
    ELSE IsError(exc)

\* how the call ends for the platform
CallerOutcome(name, kind) ==
    IF kind = "ok" \/ Catches(name, kind) THEN "returned" ELSE "escaped"

----------------------------------------------------------------------------
(* The session: login, do_refresh_token.  token_expires is kept relative   *)
(* to the clock: token_expires - time.time(), and every negative value is  *)
(* kept as -1, since the code only asks whether time.time() > token_expires*)

Expired(s) == s.token_expires < 0

\* the server never issues the token the client holds
NextToken(tok) == (tok % NTok) + 1

Lifetimes == -1 .. MaxTTL

\* an outcome of a call: the session after it, the exception it raised (or
\* none), the requests it sent
Outcome(s, exc, sent) ==
    [session |-> s, exc |-> exc, sent |-> sent]

\* a login that drops the token it held when it is refused
LoginOutcomesClearing(s) ==
    { Outcome([s EXCEPT !.token = NoToken], "ConnectionError", {"login"}),
      Outcome([s EXCEPT !.token = NoToken], "UnauthorizedError",
              {"login"}) } \cup
    { Outcome([token |-> NextToken(s.token),
               refresh_token |-> NextToken(s.token),
               token_expires |-> e], NoException, {"login"}) :
        e \in Lifetimes }

\* evacalor.login()
LoginOutcomes(s) ==
    { Outcome(s, "ConnectionError", {"login"}),
      Outcome(s, "UnauthorizedError", {"login"}) } \cup
    { Outcome([token |-> NextToken(s.token),
               refresh_token |-> NextToken(s.token),
               token_expires |-> e], NoException, {"login"}) : e \in Lifetimes }

\* answered 201: only the token and its expiry are replaced
Refreshed(s, e) ==
    [s EXCEPT !.token = NextToken(s.token), !.token_expires = e]

\* evacalor.do_refresh_token()
RefreshOutcomes(s) ==
    { Outcome(s, "ConnectionError", {"refresh"}) } \cup
    { Outcome(Refreshed(s, e), NoException, {"refresh"}) : e \in Lifetimes } \cup
    { [o EXCEPT !.sent = @ \cup {"refresh"}] : o \in LoginOutcomes(s) }

\* a call that never looks at the expiry
ExpiryCheckSkipped(s) == { Outcome(s, NoException, {}) }

\* the head of handle_webcall: if time.time() > self.token_expires
ExpiryCheck(s) ==
    IF Expired(s) THEN RefreshOutcomes(s) ELSE { Outcome(s, NoException, {}) }

\* time passes by d ticks
Elapse(s, d) ==
    IF s.token = NoToken THEN s
    ELSE [s EXCEPT !.token_expires = Max(@ - d, -1)]

----------------------------------------------------------------------------
(* The state after "self.devices = list()" of evacalor.__init__ *)

NoCall ==
    [pc |-> "none", url |-> "", payload |-> EmptyDict, depth |-> 0,
     requests |-> 0, refreshes |-> 0, res |-> [kind |-> "none"],
     authorization |-> NoToken]

Invoke(url, payload) ==
    [NoCall EXCEPT !.pc = "start", !.url = url, !.payload = payload]

NoCount == [sent |-> {}, polls |-> 0, sleeps |-> 0]

\* per dictionary: "kept" (not assigned by the operation), "same" (assigned
\* an equal value) or "changed" (assigned another value)
\* match: whether the catalog held a group of the device's id
NoPub == [map |-> "kept", info |-> "kept", match |-> "unknown"]
Assigned(old, new) == IF new = old THEN "same" ELSE "changed"

NoResult ==
    [kind |-> "none", msg |-> "", at |-> "", last |-> "none",
     caller |-> "none"]

NoObs == [read |-> FALSE, map |-> "kept", info |-> "kept"]

\* The integration.  phase: "flow" while the config flow builds its client,
\* "entry" once async_setup_entry builds the client of a stored entry;
\* gen_uuid: the unique_id given to the client; entry: the uuid stored in the
\* configuration entry; seen: the identifiers the server has received;
\* entities: the entities added; reported: the error shown or logged
NoEntry == 0
Host(phase, gen_uuid, entry, seen) ==
    [phase |-> phase, gen_uuid |-> gen_uuid, entry |-> entry, seen |-> seen,
     entities |-> 0, reported |-> "none"]

\* errors["base"] of the config flow, the message logged by async_setup_entry
Report(exc) ==
    CASE exc = "UnauthorizedError" -> "unauthorized"
      [] exc = "ConnectionError" -> "connection_error"
      [] OTHER -> "unknown_error"

\* a set-up that goes on whatever the construction raised
SetupEndsIgnoringErrors(h, kind) ==
    IF h.phase = "flow" THEN [h EXCEPT !.entry = h.gen_uuid]
                        ELSE [h EXCEPT !.entities = 1]

\* what follows the construction of the client in the two set-ups
SetupEnds(h, kind) ==
    IF kind = "ok"
      THEN IF h.phase = "flow" THEN [h EXCEPT !.entry = h.gen_uuid]
                               ELSE [h EXCEPT !.entities = 1]
    ELSE IF IsError(kind) THEN [h EXCEPT !.reported = Report(kind)]
    ELSE [h EXCEPT !.reported = "escaped"]

\* the request of register_app_id carried the unique_id to the server
Seen(h) == [h EXCEPT !.seen = @ \cup {h.gen_uuid}]

\* evacalor(email, password, gen_uuid) begins
Constructing(h) ==
    /\ pc = "register_app_id"
    /\ in_ctor = TRUE
    /\ host = h
    /\ session = [token |-> NoToken, refresh_token |-> NoToken,
                  token_expires |-> -1]
    /\ hw = NoCall
    /\ register_map_dict = EmptyDict
    /\ information_dict = EmptyDict
    /\ retry_count = 0
    /\ op = [name |-> "__init__", arg |-> 0]
    /\ result = NoResult
    /\ pub = NoPub
    /\ cnt = NoCount
    /\ obs = NoObs

\* async_setup_entry builds the client of the stored entry
Init == Constructing(Host("entry", 1, 1, {1}))

\* what the caller of handle_webcall got
Summary(res) ==
    CASE res.kind = "raise" -> res.exc
      [] res.kind = "json" ->
           IF ~ Has(res.body, "jobAnswerStatus") THEN "json"
           ELSE IF res.body.jobAnswerStatus # "completed" THEN "pending"
           ELSE IF Has(res.body.jobAnswerData, "Cmd") THEN "Cmd"
           ELSE IF Has(res.body.jobAnswerData, "Items") THEN "Items"
           ELSE "other"
      [] OTHER -> res.kind

\* an operation ends: normally, or by raising exc
EndsWith(name, kind, msg, h) ==
    /\ result' = [kind |-> kind, msg |-> msg, at |-> pc,
                  last |-> Summary(hw.res),
                  caller |-> CallerOutcome(name, kind)]
    /\ pc' = IF in_ctor /\ kind # "ok" THEN "failed" ELSE "idle"
    /\ in_ctor' = FALSE
    /\ hw' = NoCall
    /\ retry_count' = 0
    /\ obs' = NoObs
    /\ host' = IF in_ctor THEN SetupEnds(h, kind) ELSE h

Ends(kind, msg) == EndsWith(op.name, kind, msg, host)

\* the operation goes on with a call of handle_webcall
Calls(at, url, payload) ==
    /\ pc' = at
    /\ hw' = Invoke(url, payload)
    /\ obs' = NoObs
    /\ UNCHANGED <<in_ctor, host>>

Sent(urls) == cnt' = [cnt EXCEPT !.sent = @ \cup urls]

Running == result' = NoResult

----------------------------------------------------------------------------
(* evacalor.__init__ / _login: register_app_id, login, fetch_devices *)

RegisterAppIdFails ==
    /\ pc = "register_app_id"
    /\ \/ EndsWith(op.name, "ConnectionError", "", host)
       \/ EndsWith(op.name, "UnauthorizedError", "", Seen(host))
    /\ Sent({"app_signup"})
    /\ UNCHANGED <<session, register_map_dict, information_dict, op, pub>>

RegisterAppId ==
    /\ pc = "register_app_id"
    /\ pc' = "login"
    /\ Sent({"app_signup"})
    /\ host' = Seen(host)
    /\ obs' = NoObs
    /\ UNCHANGED <<in_ctor, session, hw, register_map_dict,
                   information_dict, retry_count, op, result, pub>>

LoginFails ==
    /\ pc = "login"
    /\ \E o \in LoginOutcomes(session) :
         /\ o.exc # NoException
         /\ session' = o.session
         /\ Sent(o.sent)
         /\ Ends(o.exc, "")
    /\ UNCHANGED <<register_map_dict, information_dict, op, pub>>

\* a construction that goes on to fetch_devices without login()
LoginSkipped ==
    /\ pc = "login"
    /\ Calls("device_list", "device_list", EmptyDict)
    /\ op' = [name |-> "fetch_devices", arg |-> 0]
    /\ UNCHANGED <<session, register_map_dict, information_dict,
                   retry_count, result, pub, cnt>>

\* login() succeeded: fetch_devices makes its first call
Login ==
    /\ pc = "login"
    /\ \E o \in LoginOutcomes(session) :
         /\ o.exc = NoException
         /\ session' = o.session
         /\ Sent(o.sent)
    /\ Calls("device_list", "device_list", EmptyDict)
    /\ op' = [name |-> "fetch_devices", arg |-> 0]
    /\ UNCHANGED <<register_map_dict, information_dict, retry_count, result,
                   pub>>

----------------------------------------------------------------------------
(* evacalor.handle_webcall: one action per answer to the request.  A call  *)
(* that is answered 401 refreshes the token and calls itself.              *)

Calling == hw.pc = "start"

Returns(res) == [hw EXCEPT !.pc = "ret", !.res = res]

\* do_refresh_token raises from the expiry check: no request is sent
HandleWebcallRefreshRaises ==
    /\ Calling
    /\ \E o \in ExpiryCheck(session) :
         /\ o.exc # NoException
         /\ session' = o.session
         /\ Sent(o.sent)
         /\ hw' = Returns(Raise(o.exc))
    /\ obs' = NoObs
    /\ UNCHANGED <<pc, in_ctor, register_map_dict, information_dict,
                   retry_count, op, result, pub, host>>

\* the request is sent and answered res (or not answered at all)
Answered(res) ==
    /\ Calling
    /\ \E o \in ExpiryCheck(session) :
         /\ o.exc = NoException
         /\ session' = o.session
         /\ Sent(o.sent \cup {hw.url})
         /\ hw' = [Returns(res) EXCEPT !.requests = @ + 1,
                                       !.authorization = o.session.token]
    /\ obs' = NoObs
    /\ UNCHANGED <<pc, in_ctor, register_map_dict, information_dict,
                   retry_count, op, result, pub, host>>

HandleWebcallConnectionError == Answered(Raise("ConnectionError"))

HandleWebcallNot200 == Answered(False)

HandleWebcall200 == \E body \in Bodies(hw.url) : Answered(Json(body))

\* what follows a 401: do_refresh_token, then handle_webcall again
After401(call, o) ==
    IF o.exc # NoException
      THEN [call EXCEPT !.pc = "ret", !.res = Raise(o.exc),
                        !.requests = @ + 1, !.refreshes = @ + 1]
      ELSE [call EXCEPT !.pc = "start", !.depth = @ + 1,
                        !.requests = @ + 1, !.refreshes = @ + 1]

HandleWebcall401 ==
    /\ Calling
    /\ hw.depth < MaxDepth
    /\ \E o \in ExpiryCheck(session) :
         /\ o.exc = NoException
         /\ \E r \in RefreshOutcomes(o.session) :
              /\ session' = r.session
              /\ Sent(o.sent \cup {hw.url} \cup r.sent)
              /\ hw' = [After401(hw, r) EXCEPT
                         !.authorization = o.session.token]
    /\ obs' = NoObs
    /\ UNCHANGED <<pc, in_ctor, register_map_dict, information_dict,
                   retry_count, op, result, pub, host>>

Returned == hw.pc = "ret"
ReturnedFalse == Returned /\ hw.res.kind = "False"
ReturnedJson == Returned /\ hw.res.kind = "json"
Raised == Returned /\ hw.res.kind = "raise"

----------------------------------------------------------------------------
(* evacalor.fetch_devices and fetch_device_information *)

FetchDevicesFails ==
    /\ \/ pc = "device_list" /\ ReturnedFalse
            /\ Ends("Error", "Error while fetching devices")
       \/ pc = "device_info" /\ ReturnedFalse
            /\ Ends("Error", "Error while fetching device info")
    /\ UNCHANGED <<session, register_map_dict, information_dict, op, pub,
                   cnt>>

DeviceListReturns ==
    /\ pc = "device_list" /\ ReturnedJson
    /\ Calls("device_info", "device_info", EmptyDict)
    /\ UNCHANGED <<session, register_map_dict, information_dict,
                   retry_count, op, result, pub, cnt>>

\* the operation update() begins: its first call is the registers map's
BeginUpdate ==
    /\ Calls("registers_map", "registers_map", EmptyDict)
    /\ op' = [name |-> "update", arg |-> 0]
    /\ pub' = NoPub
    /\ cnt' = NoCount
    /\ Running
    /\ UNCHANGED <<session, register_map_dict, information_dict,
                   retry_count>>

\* the Device is built and appended; fetch_device_information updates it
DeviceInfoReturns ==
    /\ pc = "device_info" /\ ReturnedJson
    /\ BeginUpdate

----------------------------------------------------------------------------
(* Device.update *)

Update ==
    /\ pc = "idle"
    /\ BeginUpdate

UpdateFails(msg) ==
    /\ Ends("Error", msg)
    /\ UNCHANGED <<session, register_map_dict, information_dict, op, pub,
                   cnt>>

RegistersMapFails ==
    /\ pc = "registers_map" /\ ReturnedFalse
    /\ UpdateFails("Error while fetching registers map")

\* __update_device_registers_mapping after its call, then the first call of
\* __update_device_information
RegistersMapReturns ==
    /\ pc = "registers_map" /\ ReturnedJson
    /\ register_map_dict' =
         RegistersMapLoop(hw.res.body, 1, MapId, register_map_dict)
    /\ pub' = IF HasMatch(hw.res.body, MapId)
                THEN [pub EXCEPT !.match = "yes",
                                 !.map = Assigned(register_map_dict,
                                                  register_map_dict')]
                ELSE [pub EXCEPT !.match = "no"]
    /\ Calls("buffer_reading", "buffer_reading", EmptyDict)
    /\ UNCHANGED <<session, information_dict, retry_count, op, result, cnt>>

BufferReadingFails ==
    /\ pc = "buffer_reading" /\ ReturnedFalse
    /\ UpdateFails("Error while fetching device information")

BufferReadingReturns ==
    /\ pc = "buffer_reading" /\ ReturnedJson
    /\ Calls("read_status", "read_status", EmptyDict)
    /\ retry_count' = 0
    /\ cnt' = [cnt EXCEPT !.polls = 1]
    /\ UNCHANGED <<session, register_map_dict, information_dict, op, result,
                   pub>>

\* the body of a polling loop: time.sleep(1), the call, retry_count + 1
PollAgain(url) ==
    /\ session' = Elapse(session, 1)
    /\ Calls(pc, url, hw.payload)
    /\ retry_count' = retry_count + 1
    /\ cnt' = [cnt EXCEPT !.polls = @ + 1, !.sleeps = @ + 1]
    /\ UNCHANGED <<register_map_dict, information_dict, op, result, pub>>

ReadStatusPolls ==
    /\ pc = "read_status" /\ Returned /\ ~ Raised
    /\ ReadPollAgain(hw.res, retry_count)
    /\ PollAgain("read_status")

\* the loop is left without a completed answer, or the answer has no Items
ReadStatusFails ==
    /\ pc = "read_status" /\ Returned /\ ~ Raised
    /\ ~ ReadPollAgain(hw.res, retry_count)
    /\ ReadFailed(hw.res)
    /\ UpdateFails("Error while fetching device information")

ReadStatusReturns ==
    /\ pc = "read_status" /\ Returned /\ ~ Raised
    /\ ~ ReadPollAgain(hw.res, retry_count)
    /\ ~ ReadFailed(hw.res)
    /\ information_dict' = ParseJobAnswer(hw.res.body).dict
    /\ pub' = [pub EXCEPT !.info = Assigned(information_dict,
                                            information_dict')]
    /\ Ends("ok", "")
    /\ UNCHANGED <<session, register_map_dict, op, cnt>>

\* an exception of handle_webcall leaves __init__ and update() as it is
Raises ==
    /\ pc \in {"device_list", "device_info", "registers_map",
               "buffer_reading", "read_status"}
    /\ Raised
    /\ Ends(hw.res.exc, "")
    /\ UNCHANGED <<session, register_map_dict, information_dict, op, pub,
                   cnt>>

----------------------------------------------------------------------------
(* The write operations: the setters, turn_off, turn_on, __request_writing *)

What(name) ==
    CASE name = "set_air_temperature" -> "Error while trying to set temperature"
      [] name = "set_power" -> "Error while trying to set power"
      [] name = "turn_off" -> "Error while trying to turn off device"
      [] name = "turn_on" -> "Error while trying to turn on device"

\* the values are prepared; if that raised, the operation is over, if not
\* __request_writing makes its first call
BeginWrite(name, arg, item, p) ==
    /\ pc = "idle"
    /\ op' = [name |-> name, arg |-> arg]
    /\ pub' = NoPub
    /\ cnt' = NoCount
    /\ IF p.kind # "ok"
         THEN EndsWith(name, p.kind, "", host)
         ELSE /\ Calls("write", "write",
                       WritePayload(register_map_dict, item, p.values))
              /\ Running
              /\ UNCHANGED retry_count
    /\ UNCHANGED <<session, register_map_dict, information_dict>>

SetAirTemperature ==
    \E value \in UserValues :
      BeginWrite("set_air_temperature", value, "temp_air_set",
        PrepareValueForWriting(register_map_dict, "temp_air_set", value))

SetPower ==
    \E value \in UserValues :
      BeginWrite("set_power", value, "power_set",
        PrepareValueForWriting(register_map_dict, "power_set", value))

TurnOff ==
    BeginWrite("turn_off", 0, "status_managed_get",
      OnOffValues(register_map_dict, "status_managed_get", "value_off"))

TurnOn ==
    BeginWrite("turn_on", 0, "status_managed_get",
      OnOffValues(register_map_dict, "status_managed_get", "value_on"))

\* raise exc inside the try of the operation
WriteEnds(exc) ==
    /\ LET r == Reraise(exc, What(op.name)) IN Ends(r.kind, r.msg)
    /\ UNCHANGED <<session, register_map_dict, information_dict, op, pub,
                   cnt>>

WriteFails ==
    /\ pc = "write" /\ ReturnedFalse
    /\ WriteEnds("Error")

WriteReturns ==
    /\ pc = "write" /\ ReturnedJson
    /\ Calls("write_status", "write_status", hw.payload)
    /\ retry_count' = 0
    /\ cnt' = [cnt EXCEPT !.polls = 1]
    /\ UNCHANGED <<session, register_map_dict, information_dict, op, result,
                   pub>>

WriteStatusPolls ==
    /\ pc = "write_status" /\ Returned /\ ~ Raised
    /\ WritePollAgain(hw.res, retry_count)
    /\ PollAgain("write_status")

WriteStatusFails ==
    /\ pc = "write_status" /\ Returned /\ ~ Raised
    /\ ~ WritePollAgain(hw.res, retry_count)
    /\ WriteFailed(hw.res)
    /\ WriteEnds("Error")

\* a write that puts the value it wrote into the raw values
WriteStatusReturnsCaching ==
    /\ pc = "write_status" /\ Returned /\ ~ Raised
    /\ ~ WritePollAgain(hw.res, retry_count)
    /\ ~ WriteFailed(hw.res)
    /\ information_dict' = Put(information_dict, hw.payload.Items[1],
                               hw.payload.Values[1])
    /\ Ends("ok", "")
    /\ UNCHANGED <<session, register_map_dict, op, pub, cnt>>

WriteStatusReturns ==
    /\ pc = "write_status" /\ Returned /\ ~ Raised
    /\ ~ WritePollAgain(hw.res, retry_count)
    /\ ~ WriteFailed(hw.res)
    /\ Ends("ok", "")
    /\ UNCHANGED <<session, register_map_dict, information_dict, op, pub,
                   cnt>>

\* an exception of handle_webcall inside the try of a write operation
WriteRaises ==
    /\ pc \in {"write", "write_status"}
    /\ Raised
    /\ WriteEnds(hw.res.exc)

----------------------------------------------------------------------------
(* A second thread reading the cache through a property, and the clock *)

Reachable == ~ in_ctor /\ pc # "failed"

Read ==
    /\ Reachable
    /\ obs' = [read |-> TRUE, map |-> pub.map, info |-> pub.info]
    /\ UNCHANGED <<pc, in_ctor, session, hw, register_map_dict,
                   information_dict, retry_count, op, result, pub, cnt, host>>

Tick ==
    /\ session.token # NoToken
    /\ session.token_expires > -1
    /\ session' = Elapse(session, 1)
    /\ obs' = NoObs
    /\ UNCHANGED <<pc, in_ctor, hw, register_map_dict, information_dict,
                   retry_count, op, result, pub, cnt, host>>

----------------------------------------------------------------------------

Next ==
    \/ RegisterAppIdFails
    \/ RegisterAppId
    \/ LoginFails
    \/ Login
    \/ HandleWebcallRefreshRaises
    \/ HandleWebcallConnectionError
    \/ HandleWebcallNot200
    \/ HandleWebcall200
    \/ HandleWebcall401
    \/ FetchDevicesFails
    \/ DeviceListReturns
    \/ DeviceInfoReturns
    \/ Update
    \/ RegistersMapFails
    \/ RegistersMapReturns
    \/ BufferReadingFails
    \/ BufferReadingReturns
    \/ ReadStatusPolls
    \/ ReadStatusFails
    \/ ReadStatusReturns
    \/ Raises
    \/ SetAirTemperature
    \/ SetPower
    \/ TurnOff
    \/ TurnOn
    \/ WriteFails
    \/ WriteReturns
    \/ WriteStatusPolls
    \/ WriteStatusFails
    \/ WriteStatusReturns
    \/ WriteRaises
    \/ Read
    \/ Tick

Spec == Init /\ [][Next]_vars

----------------------------------------------------------------------------
(* The set-up of the integration: the config flow, then async_setup_entry  *)
(* at every start of the host.  Both construct a client, which runs        *)
(* register_app_id, login, fetch_devices and the first update().           *)

\* evacalor(email, password, gen_uuid) is called
Construct(h) ==
    /\ pc' = "register_app_id"
    /\ in_ctor' = TRUE
    /\ host' = h
    /\ session' = [token |-> NoToken, refresh_token |-> NoToken,
                   token_expires |-> -1]
    /\ hw' = NoCall
    /\ register_map_dict' = EmptyDict
    /\ information_dict' = EmptyDict
    /\ retry_count' = 0
    /\ op' = [name |-> "__init__", arg |-> 0]
    /\ result' = NoResult
    /\ pub' = NoPub
    /\ cnt' = NoCount
    /\ obs' = NoObs

\* the form is submitted again after a failed attempt: uuid.uuid1() gives an
\* identifier never given before
AsyncStepUser ==
    /\ host.phase = "flow" /\ host.entry = NoEntry
    /\ pc = "failed"
    /\ host.gen_uuid < MaxUuid
    /\ Construct(Host("flow", host.gen_uuid + 1, NoEntry, host.seen))

\* the host sets the stored entry up: after the flow, and at every restart
AsyncSetupEntry ==
    /\ host.entry # NoEntry
    /\ pc \in {"idle", "failed"}
    /\ Construct(Host("entry", host.entry, host.entry, host.seen))

SetupInit == Constructing(Host("flow", 1, NoEntry, {}))

SetupNext ==
    \/ AsyncStepUser
    \/ AsyncSetupEntry
    \/ RegisterAppIdFails
    \/ RegisterAppId
    \/ LoginFails
    \/ Login
    \/ HandleWebcallRefreshRaises
    \/ HandleWebcallConnectionError
    \/ HandleWebcallNot200
    \/ HandleWebcall200
    \/ HandleWebcall401
    \/ FetchDevicesFails
    \/ DeviceListReturns
    \/ DeviceInfoReturns
    \/ RegistersMapFails
    \/ RegistersMapReturns
    \/ BufferReadingFails
    \/ BufferReadingReturns
    \/ ReadStatusPolls
    \/ ReadStatusFails
    \/ ReadStatusReturns
    \/ Raises
    \/ Tick

SetupSpec == SetupInit /\ [][SetupNext]_vars

----------------------------------------------------------------------------
(* Single calls of __get_information_item, __prepare_value_for_writing and *)
(* do_refresh_token, on a device and a session drawn from the values the   *)
(* server can give them.                                                   *)

RegistersC ==
    << Register("temp_air_set", 0, "#/10", "#*10", 1, 30, NoEnc),
       Register("power_set", 1, "abs(#)", "abs(#)", 1, 5, NoEnc),
       Register("status_get", 7, "#", "#", 0, 9, NoEnc) >>

CallMaps ==
    { RegistersMapLoop(catalog, 1, MapId, EmptyDict) :
        catalog \in Catalogs \cup { << Group(MapId, RegistersC) >> } }

CallReadings ==
    { ParseJobAnswer([jobAnswerData |-> d]).dict :
        d \in ReadingData \cup { [Items |-> <<0, 1>>, Values |-> <<220, 3>>] } }

CallSessions ==
    [token : 1..NTok, refresh_token : 1..NTok, token_expires : Lifetimes]

\* the registers the properties read, the values given to the setters
CallItems == { "temp_air_set", "power_set", "status_get", "status_managed_get" }
CallValues == { 15, 20, 220, 400 }

CallInit ==
    /\ pc = "idle"
    /\ in_ctor = FALSE
    /\ host = [Host("entry", 1, 1, {1}) EXCEPT !.entities = 1]
    /\ session \in CallSessions
    /\ hw = NoCall
    /\ register_map_dict \in CallMaps
    /\ information_dict \in CallReadings
    /\ retry_count = 0
    /\ op = [name |-> "none", item |-> "", arg |-> 0]
    /\ result = NoResult
    /\ pub = NoPub
    /\ cnt = NoCount
    /\ obs = NoObs

\* a property is read
PropertyRead ==
    /\ \E item \in CallItems :
         /\ op' = [name |-> "get", item |-> item, arg |-> 0]
         /\ result' = GetInformationItem(register_map_dict, information_dict,
                                         item)
    /\ UNCHANGED <<pc, in_ctor, session, hw, register_map_dict,
                   information_dict, retry_count, pub, cnt, obs, host>>

\* a setter prepares its value
PrepareValue ==
    /\ \E item \in {"temp_air_set", "power_set"}, value \in CallValues :
         /\ op' = [name |-> "prepare", item |-> item, arg |-> value]
         /\ result' = PrepareValueForWriting(register_map_dict, item, value)
    /\ UNCHANGED <<pc, in_ctor, session, hw, register_map_dict,
                   information_dict, retry_count, pub, cnt, obs, host>>

DoRefreshToken ==
    /\ \E o \in RefreshOutcomes(session) :
         /\ session' = o.session
         /\ result' = [kind |-> o.exc, sent |-> o.sent, before |-> session]
    /\ op' = [name |-> "do_refresh_token", item |-> "", arg |-> 0]
    /\ UNCHANGED <<pc, in_ctor, hw, register_map_dict, information_dict,
                   retry_count, pub, cnt, obs, host>>

CallNext ==
    \/ PropertyRead
    \/ PrepareValue
    \/ DoRefreshToken

CallSpec == CallInit /\ [][CallNext]_vars

----------------------------------------------------------------------------
(* The claims *)

Setters == {"set_air_temperature", "set_power"}
Switches == {"turn_off", "turn_on"}
Writes == Setters \cup Switches

\* the register an operation writes, and the encoding a switch needs
ItemOf(name) ==
    CASE name = "set_air_temperature" -> "temp_air_set"
      [] name = "set_power" -> "power_set"
      [] OTHER -> "status_managed_get"

EncodingOf(name) == IF name = "turn_on" THEN "value_on" ELSE "value_off"

\* the operation is over and the caller has its outcome
Over == pc \in {"idle", "failed"} /\ result.kind # "none"

\* the value given to a setter lies outside the bounds of its register
ValueOutside ==
    /\ op.name \in Setters
    /\ Has(register_map_dict, ItemOf(op.name))
    /\ LET entry == register_map_dict[ItemOf(op.name)]
       IN  \/ op.arg < entry.set_min * Scale
           \/ op.arg > entry.set_max * Scale

\* C1: a setter given a value outside [set_min, set_max] of its register
\* ends at once with the out-of-range error (ValueError) and not a single
\* request, of any kind, is sent for it.
C1_OutOfRangeNeverSent ==
    ValueOutside =>
      /\ pc = "idle"
      /\ result.kind = "ValueError"
      /\ cnt.sent = {}

C1_Witness ==
    /\ ValueOutside
    /\ op.name = "set_air_temperature"
    /\ op.arg > register_map_dict["temp_air_set"].set_max * Scale
    /\ result.kind = "ValueError"

\* the reader holds one dictionary as the operation changed it and the other
\* as it was before the operation
Torn(o) ==
    \/ o.map = "changed" /\ o.info = "kept"
    \/ o.map = "kept" /\ o.info = "changed"

\* C2: a property read that runs concurrently with update() never sees the
\* register map of one update together with the raw values of another.
C2_AtomicSwap == obs.read => ~ Torn(obs)

\* C3: within one handle_webcall a 401 leads to one token refresh and one
\* retry, and never to a second refresh or a third request.
C3_OneRefreshOneRetry == hw.refreshes <= 1 /\ hw.requests <= 2

\* C4: an update() of a reachable device that fails leaves both the register
\* map and the raw values exactly as they were before it.
C4_FailedUpdateKeepsState ==
    (Reachable /\ Over /\ op.name = "update" /\ result.kind # "ok") =>
      (pub.map # "changed" /\ pub.info # "changed")

\* the operation ended on a job status answer that was not "completed"
NeverCompleted ==
    /\ Over
    /\ result.at \in {"read_status", "write_status"}
    /\ result.last \in {"False", "pending"}

\* C5: an operation whose job is still not completed when the retries are
\* used up ends by raising Error, never normally, and an update() then has
\* not assigned the raw values.
C5_NeverCompletedRaises ==
    NeverCompleted =>
      /\ result.kind = "Error"
      /\ cnt.polls = RetryBound + 1
      /\ pub.info = "kept"

C5_Witness ==
    /\ NeverCompleted
    /\ Reachable
    /\ op.name = "update"
    /\ result.last = "pending"
    /\ pub.map = "changed"

\* C6 as stated: a write operation makes at most 10 job status calls.
C6_AtMostTenPolls == op.name \in Writes => cnt.polls <= RetryBound

\* C6 as amended: a write operation makes one job status call and at most
\* RetryBound (10) retries of it, 11 calls in all when the job never
\* completes, and sleeps once before every retry.
C6_OnePollAndTenRetries ==
    op.name \in Writes =>
      /\ cnt.polls <= RetryBound + 1
      /\ cnt.sleeps = Max(cnt.polls - 1, 0)
      /\ NeverCompleted => cnt.polls = RetryBound + 1

C6_Witness ==
    /\ op.name \in Writes
    /\ NeverCompleted
    /\ cnt.polls = RetryBound + 1
    /\ cnt.sleeps = RetryBound

\* the status register is mapped but lacks the encoding the switch needs
EncodingMissing ==
    /\ op.name \in Switches
    /\ Over
    /\ Has(register_map_dict, "status_managed_get")
    /\ ~ Has(register_map_dict["status_managed_get"], EncodingOf(op.name))

\* C7: turn_on / turn_off without the on / off encoding fails with an error
\* of the library's own classes and sends no request.
C7_MissingEncodingIsLibraryError ==
    EncodingMissing => (IsError(result.kind) /\ cnt.sent = {})

\* C8: an update() whose catalog holds no group of the device's
\* id_registers_map does not complete normally.
C8_NoMatchFails ==
    (op.name = "update" /\ pub.match = "no") => result.kind # "ok"

\* C9: a write operation that fails on a ConnectionError or an
\* UnauthorizedError of the transport raises that same kind of error.
C9_ErrorKindKept ==
    (op.name \in Writes /\ Over
       /\ result.last \in {"ConnectionError", "UnauthorizedError"}) =>
      result.kind = result.last

\* the write request was refused, or the job did not complete, or its
\* answer carries no command acknowledgement
TransportFailed ==
    /\ op.name \in Writes
    /\ Over
    /\ \/ result.at = "write" /\ result.last = "False"
       \/ result.at = "write_status"
            /\ result.last \in {"False", "pending", "other"}

\* C10: a write operation that the transport fails ends by raising Error
\* with the message of the property that could not be set.
C10_OperationFailedNamesProperty ==
    TransportFailed =>
      /\ result.kind = "Error"
      /\ result.msg =
           CASE op.name = "set_air_temperature" ->
                  "Error while trying to set temperature"
             [] op.name = "set_power" -> "Error while trying to set power"
             [] op.name = "turn_off" ->
                  "Error while trying to turn off device"
             [] op.name = "turn_on" -> "Error while trying to turn on device"

C10_Witness ==
    /\ TransportFailed
    /\ op.name = "set_power"
    /\ result.at = "write_status"
    /\ result.last = "other"
    /\ result.kind = "Error"

\* C11: no failure of a device call escapes the method of the integration
\* that made the call: turn_on, turn_off, set_temperature, set_fan_mode and
\* update all return normally whatever the call raised.
C11_NoFailureEscapes == result.caller # "escaped"

\* a switch has its write request in flight or answered
SwitchWrites == op.name \in Switches /\ hw.url = "write"

\* the value the catalog configures for the switch: the ENG / ON (OFF) item
ConfiguredValue(name) ==
    LET wanted == IF name = "turn_on" THEN "ON" ELSE "OFF"
        i == CHOOSE j \in 1..Len(OnOff.enc_val) :
               /\ OnOff.enc_val[j].lang = "ENG"
               /\ OnOff.enc_val[j].description = wanted
    IN  OnOff.enc_val[i].value

\* C13: the write request of turn_on / turn_off carries the offset and the
\* mask of the status_managed_get register and, as its single value, the on
\* (off) value configured on that register; it is never addressed to the
\* power register.
C13_SwitchWritesStatusRegister ==
    SwitchWrites =>
      LET entry == register_map_dict["status_managed_get"]
      IN  /\ hw.payload.Items = << entry.offset >>
          /\ hw.payload.Masks = << entry.mask >>
          /\ hw.payload.Values = << ConfiguredValue(op.name) >>
          /\ hw.payload.Items # << register_map_dict["power_set"].offset >>

C13_Witness ==
    /\ SwitchWrites
    /\ op.name = "turn_on"
    /\ ReturnedJson
    /\ hw.payload.Values = << 1 >>

\* the construction of the client failed on the credentials or the network
SetupFailed ==
    /\ pc = "failed"
    /\ result.kind \in {"UnauthorizedError", "ConnectionError"}

\* C14: when the construction of the client raises UnauthorizedError or
\* ConnectionError, at whichever step, the config flow creates no entry and
\* async_setup_entry adds no entity, and the kind of the error is reported.
C14_SetupAborts ==
    SetupFailed =>
      /\ host.phase = "flow" => host.entry = NoEntry
      /\ host.entities = 0
      /\ host.reported = IF result.kind = "UnauthorizedError"
                           THEN "unauthorized" ELSE "connection_error"

C14_Witness ==
    /\ SetupFailed
    /\ host.phase = "entry"
    /\ result.at = "read_status"
    /\ result.kind = "UnauthorizedError"

\* C19: the server has received no identifier but the one stored in the
\* configuration entry.
C19_ServerSeesOnlyStoredId ==
    host.entry # NoEntry => host.seen = {host.entry}

\* a property was read whose register is mapped but whose offset the raw
\* values do not hold
OffsetAbsent ==
    /\ op.name = "get"
    /\ Has(register_map_dict, op.item)
    /\ ~ Has(information_dict, register_map_dict[op.item].offset)

\* C12: reading a register whose offset is absent from the raw values fails
\* (with KeyError); it never gives a value.
C12_MissingOffsetFails == OffsetAbsent => result.kind = "KeyError"

C12_Witness ==
    /\ OffsetAbsent
    /\ op.item = "status_get"
    /\ information_dict # EmptyDict
    /\ result.kind = "KeyError"

\* a value was prepared for a mapped register and lies within its bounds
InRange ==
    /\ op.name = "prepare"
    /\ Has(register_map_dict, op.item)
    /\ op.arg >= register_map_dict[op.item].set_min * Scale
    /\ op.arg <= register_map_dict[op.item].set_max * Scale

\* a property was read and its register and raw value were there
Looked ==
    /\ op.name = "get"
    /\ Has(register_map_dict, op.item)
    /\ Has(information_dict, register_map_dict[op.item].offset)

\* C15: an in-range value, encoded and decoded again, is the value; a raw
\* value, decoded and (if in range) encoded again, is the raw value.
C15_RoundTrip ==
    /\ (InRange /\ result.kind = "ok") =>
         Translate(register_map_dict[op.item], result.values[1]).tenths
           = op.arg
    /\ (Looked /\ result.kind = "ok") =>
         LET entry == register_map_dict[op.item]
         IN  ~ OutOfRange(entry, result.tenths) =>
               Encode(entry, result.tenths)
                 = << information_dict[entry.offset] >>

\* C16: a read gives the formula applied to the raw value at the offset of
\* the register: raw / 10 as a float for "#/10", the raw value itself for
\* "#"; the raw value 220 with "#/10" and "{0}" reads as 22.0.
C16_DecodeAppliesFormula ==
    Looked =>
      LET entry == register_map_dict[op.item]
          raw == information_dict[entry.offset]
      IN  /\ result.kind = "ok"
          /\ entry.formula = "#/10" =>
                (result.tenths * 10 = raw * Scale /\ result.is_float)
          /\ entry.formula = "#" =>
                (result.tenths = raw * Scale /\ ~ result.is_float)
          /\ (entry.formula = "#/10" /\ entry.format_string = "{0}"
                /\ raw = 220) =>
                (result.tenths = 22 * Scale /\ result.is_float)

C16_Witness ==
    /\ Looked
    /\ register_map_dict[op.item].formula = "#/10"
    /\ information_dict[register_map_dict[op.item].offset] = 220
    /\ result.tenths = 220

\* C17: an in-range value is encoded as a sequence of one integer, the
\* integer part of formula_inverse applied to the value; 22.0 with "#*10"
\* is encoded as [220].
C17_EncodeAppliesInverse ==
    InRange =>
      LET entry == register_map_dict[op.item]
      IN  /\ result.kind = "ok"
          /\ Len(result.values) = 1
          /\ entry.formula_inverse = "#*10" =>
                /\ result.values[1] * Scale <= op.arg * 10
                /\ op.arg * 10 < (result.values[1] + 1) * Scale
          /\ entry.formula_inverse = "#" =>
                /\ result.values[1] * Scale <= op.arg
                /\ op.arg < (result.values[1] + 1) * Scale
          /\ (entry.formula_inverse = "#*10" /\ op.arg = 22 * Scale) =>
                result.values = << 220 >>

C17_Witness ==
    /\ InRange
    /\ register_map_dict[op.item].formula_inverse = "#*10"
    /\ op.arg = 220
    /\ result.values = << 220 >>

\* the formulas written with + - * / ( ), numbers and the placeholder
SafeFormulas == { "#", "#/10", "#*10" }

\* C18: a formula outside the arithmetic grammar is rejected: neither a
\* read nor an encoding evaluates it.
C18_UnsafeFormulaRejected ==
    /\ (Looked /\ register_map_dict[op.item].formula \notin SafeFormulas)
         => result.kind # "ok"
    /\ (InRange
          /\ register_map_dict[op.item].formula_inverse \notin SafeFormulas)
         => result.kind # "ok"

\* do_refresh_token was refused by the server and went on to login()
RefreshRejected ==
    /\ op.name = "do_refresh_token"
    /\ {"refresh", "login"} \subseteq result.sent

\* C20: when the refresh is refused, do_refresh_token logs in: if it then
\* returns, token, refresh token and expiry are those the login gave; if
\* the login is refused it raises UnauthorizedError and token, expiry and
\* refresh token are what they were.
C20_RefreshRejectedLogsIn ==
    RefreshRejected =>
      /\ result.kind = NoException =>
            /\ session.token = NextToken(result.before.token)
            /\ session.refresh_token = NextToken(result.before.token)
            /\ session.token_expires \in Lifetimes
      /\ result.kind # NoException =>
            /\ result.kind \in {"UnauthorizedError", "ConnectionError"}
            /\ session = result.before

C20_Witness ==
    /\ RefreshRejected
    /\ result.kind = "UnauthorizedError"
    /\ session = result.before

\* C21: a request that handle_webcall sends in a call begun past the stored
\* expiry of the token is sent after a token refresh and carries, in its
\* Authorization header, the token that refresh gave and not the expired one.
C21_ExpiredTokenRefreshedFirst ==
    [][(Calling /\ Expired(session) /\ hw'.requests > hw.requests) =>
         /\ "refresh" \in cnt'.sent
         /\ hw'.authorization # session.token
         /\ hw'.authorization = NextToken(session.token)]_vars

\* the first call of an update() began past the expiry and was answered
C21_Witness ==
    /\ pc = "registers_map"
    /\ ~ in_ctor
    /\ ReturnedJson
    /\ hw.requests = 1
    /\ "refresh" \in cnt.sent
    /\ hw.authorization = session.token

\* an update() has completed normally
Updated == Over /\ op.name = "update" /\ result.kind = "ok"

\* C22: after a successful update() both dictionaries are those the update
\* built from its own answers: the raw values from the job answer and the
\* register map from the matching group of the catalog it fetched; neither
\* is left over from an earlier update.
C22_BothReplacedWholesale ==
    Updated => (pub.map # "kept" /\ pub.info # "kept")

\* C23: handle_webcall gives up of its own accord: the 401 answers of one
\* call never number MaxDepth, the most the server of this model gives.
C23_StopsBeforeTheCap == hw.depth < MaxDepth

StatusTaken ==
    /\ pc \in {"read_status", "write_status"}
    /\ Returned
    /\ hw' # hw

\* C25: in both polling loops an answer "completed" is the last status
\* request of the operation; an answer other than 200 (False), while
\* retries are left, is followed by one more status request after one
\* sleep; a ConnectionError ends the operation at once.
C25_PollingLoop ==
    [][StatusTaken =>
         /\ (hw.res.kind = "json"
               /\ hw.res.body.jobAnswerStatus = "completed") =>
              (cnt'.polls = cnt.polls /\ pc' \in {"idle", "failed"})
         /\ (hw.res.kind = "False" /\ retry_count < RetryBound) =>
              /\ pc' = pc
              /\ hw'.pc = "start"
              /\ retry_count' = retry_count + 1
              /\ cnt'.polls = cnt.polls + 1
              /\ cnt'.sleeps = cnt.sleeps + 1
         /\ (hw.res.kind = "raise") =>
              /\ cnt'.polls = cnt.polls
              /\ pc' \in {"idle", "failed"}
              /\ result'.kind # "ok"]_vars

\* a write whose first status request was not answered "completed" and
\* whose second one was
C25_Witness ==
    /\ Over
    /\ result.at = "write_status"
    /\ result.last = "Cmd"
    /\ cnt.polls = 2
    /\ cnt.sleeps = 1

\* C26: a write operation returns normally only when its write request
\* was accepted and its last job status answer was "completed" and held
\* the acknowledgement 'Cmd'; a completed answer without it is a failure.
C26_WriteNeedsAcknowledgement ==
    (op.name \in Writes /\ Over) =>
      /\ result.kind = "ok" =>
            /\ result.at = "write_status"
            /\ result.last = "Cmd"
            /\ {"write", "write_status"} \subseteq cnt.sent
      /\ (result.at = "write_status" /\ result.last = "other") =>
            result.kind = "Error"

C26_Witness ==
    /\ op.name = "turn_off"
    /\ Over
    /\ result.at = "write_status"
    /\ result.last = "other"
    /\ result.kind = "Error"

\* C27: the construction registers the app, logs in, fetches the device
\* list and the device info in that order and stops at the first failure;
\* handle_webcall runs only with the token and expiry of a login; the
\* device is handed to a caller (an entity is added, a property is read)
\* only after its first update() has assigned the raw values.
C27_ConstructionInOrder ==
    /\ hw.pc # "none" =>
         (session.token # NoToken /\ session.refresh_token # NoToken)
    /\ (in_ctor /\ pc = "login") => cnt.sent = {"app_signup"}
    /\ (in_ctor /\ pc \in {"device_list", "device_info"}) =>
         {"app_signup", "login"} \subseteq cnt.sent
    /\ (in_ctor /\ pc = "device_info") => "device_list" \in cnt.sent
    /\ pc = "failed" => (hw = NoCall /\ host.entities = 0)
    /\ (host.entities = 1 \/ obs.read) => information_dict # EmptyDict

\* the construction stopped at the device list, after the login
C27_Witness ==
    /\ pc = "failed"
    /\ result.at = "device_list"
    /\ result.kind = "Error"
    /\ {"app_signup", "login", "device_list"} \subseteq cnt.sent
    /\ information_dict = EmptyDict

====
